---- MODULE Spec2Model ----
(***************************************************************************)
(* A model of src/App.jsx of three-fiber-visualizer: the microphone        *)
(* analyser hook (useAudioAnalyzer), the per-cube frame callback           *)
(* (SingleCube / RotatingCubes) and the kaleidoscope post-process          *)
(* (kaleidoscopeFragmentShader, KaleidoscopeEffect.update).                *)
(*                                                                         *)
(* Numbers.  JavaScript numbers are doubles; TLC has integers only.        *)
(*  - scale and tube radius are fixed-point with FixedOne units per 1.0;   *)
(*    FixedOne carries one factor of 10 per explored render frame, so      *)
(*    every multiplication by 0.1 of the smoother is exact;                *)
(*  - audioLevel is carried in LevelScale-ths (floor);                     *)
(*  - Math.sin is Bhaskara's rational approximation, in thousandths;       *)
(*  - angles of the shader are whole degrees.                              *)
(***************************************************************************)
EXTENDS Integers, Sequences, FiniteSets, TLC

\* ------------------------------------------------------------- bounds
\* invocations of updateAudioData explored
MaxTicks == 2
\* render frames explored
MaxFrames == 2
\* bins of the analyser (frequencyBinCount, 64 in the program)
BinCount == 2
\* resolution of audioLevel: levels are multiples of 1 / LevelScale
LevelScale == 10
\* levels handed to the period run from -ProbeSpan to 1 + ProbeSpan
ProbeSpan == 3
\* largest radius of a shaded coordinate
MaxRadius == 1
\* largest canvas width and height
MaxDim == 8
\* longest frame handed to the bin lookup
MaxLen == 70

\* Byte magnitudes the analyser is taken to write into a bin.
Magnitudes == {0, 255}
\* Frame deltas (seconds) the render clock is taken to report.
Deltas == {1, 4}

\* -------------------------------------------------- program constants
cubeCount == 20
\* the literal 20 of index / 20
indexDivisor == 20
basePeriod == 60
minPeriod == 15
byteMax == 255
\* 2.0 * 3.14159265359, in degrees
TwoPi == 360

VARIABLES
    phase,            \* progress of setupAudio
    tornDown,         \* the effect cleanup has run
    streamLive,       \* the MediaStream of getUserMedia has live tracks
    audioContext,     \* "none" | "running" | "closed"
    audioContextRef,  \* audioContextRef.current is set
    analyzerRef,      \* analyzerRef.current is set
    dataArrayRef,     \* heap index of dataArrayRef.current, 0 for null
    heap,             \* the Uint8Arrays allocated so far, by identity
    published,        \* heap indices that were handed to setAudioData
    audioData,        \* heap index held by the audioData state
    audioLevel,       \* the audioLevel state, in LevelScale-ths
    animationIdRef,   \* animationIdRef.current, 0 for null
    rafQueue,         \* ids of animation-frame callbacks still pending
    rafCount,         \* ids handed out by requestAnimationFrame
    updateCalls,      \* invocations of updateAudioData
    cubes,            \* per cube: smoothing refs, group scale, tube radius, rotation
    elapsedTime,      \* state.clock.elapsedTime, seconds
    frames,           \* render frames run
    oscillator,       \* a period evaluation: the level given, the period found
    pixels,           \* two shader invocations: uniforms, coordinates in and out
    kaleidoscope,     \* the canvas size and the effect's aspect uniform
    binProbe          \* a bin lookup: cube index, frame length, bin found

audioVars == <<phase, tornDown, streamLive, audioContext, audioContextRef,
               analyzerRef, dataArrayRef, heap, published, audioData, audioLevel,
               animationIdRef, rafQueue, rafCount, updateCalls>>
renderVars == <<cubes, elapsedTime, frames>>
mainVars == <<audioVars, renderVars>>
pureVars == <<oscillator, pixels, kaleidoscope, binProbe>>
vars == <<mainVars, pureVars>>

\* ------------------------------------------------------------ helpers
RECURSIVE Pow10(_)
Pow10(n) == IF n = 0 THEN 1 ELSE 10 * Pow10(n - 1)

RECURSIVE SumSeq(_)
SumSeq(s) == IF s = <<>> THEN 0 ELSE Head(s) + SumSeq(Tail(s))

RECURSIVE Gcd(_, _)
Gcd(a, b) == IF b = 0 THEN a ELSE Gcd(b, a % b)

Pow3(x) == x * x * x
Pow5(x) == x * x * x * x * x

\* x * n / d, exact whenever d divides x
ScaleBy(x, n, d) == (x \div d) * n

\* ------------------------------------------------- useAudioAnalyzer
Spectra == [1..BinCount -> Magnitudes]

\* Math.pow(average / 255, 0.6) in LevelScale-ths, rounded down:
\* the largest y with (y / LevelScale)^5 <= (sum / (255 * len))^3.
Boost(sum, len) ==
    LET g == Gcd(sum, byteMax * len)
        p == sum \div g
        q == (byteMax * len) \div g
    IN  CHOOSE y \in 0..LevelScale :
          /\ Pow5(y) * Pow3(q) <= Pow3(p) * Pow5(LevelScale)
          /\ \A z \in 0..LevelScale :
                Pow5(z) * Pow3(q) <= Pow3(p) * Pow5(LevelScale) => z <= y

\* Variant: setAudioData(dataArrayRef.current), the working buffer itself.
PublishAlias(h, ref) == <<h, ref>>

\* setAudioData(new Uint8Array(dataArrayRef.current)): a fresh array holding
\* a copy of the working buffer; the pair <<heap after, index published>>.
PublishSpectrum(h, ref) == <<Append(h, h[ref]), Len(h) + 1>>

\* updateAudioData, run with the refs as they are at the call; fired is the
\* id of the animation-frame callback being run (0 for the direct call).
UpdateAudioData(analyzer, ref, h, sample, fired) ==
    /\ IF analyzer /\ ref # 0
       THEN LET filled == [h EXCEPT ![ref] = sample]
                pub == PublishSpectrum(filled, ref)
            IN  /\ heap' = pub[1]
                /\ audioData' = pub[2]
                /\ published' = published \cup {pub[2]}
                /\ audioLevel' = Boost(SumSeq(sample), Len(sample))
       ELSE /\ heap' = h
            /\ UNCHANGED <<audioData, published, audioLevel>>
    /\ rafCount' = rafCount + 1
    /\ animationIdRef' = rafCount + 1
    /\ rafQueue' = (rafQueue \ {fired}) \cup {rafCount + 1}
    /\ updateCalls' = updateCalls + 1

\* The effect body: setupAudio() is called and suspends at getUserMedia.
RunEffect ==
    /\ phase = "Uninitialized"
    /\ phase' = "Requesting"
    /\ UNCHANGED <<tornDown, streamLive, audioContext, audioContextRef, analyzerRef,
                   dataArrayRef, heap, published, audioData, audioLevel,
                   animationIdRef, rafQueue, rafCount, updateCalls>>
    /\ UNCHANGED <<renderVars, pureVars>>

\* getUserMedia resolves: the rest of the try block runs in one turn,
\* through the first, direct call of updateAudioData.
SetupGranted ==
    /\ phase = "Requesting"
    /\ \E sample \in Spectra :
         LET h == Append(heap, [b \in 1..BinCount |-> 0])
         IN  /\ phase' = "Active"
             /\ streamLive' = TRUE
             /\ audioContext' = "running"
             /\ audioContextRef' = TRUE
             /\ analyzerRef' = TRUE
             /\ dataArrayRef' = Len(h)
             /\ UpdateAudioData(TRUE, Len(h), h, sample, 0)
    /\ UNCHANGED tornDown
    /\ UNCHANGED <<renderVars, pureVars>>

\* Variant: a rejection that still requests an animation frame.
SetupRejectedPolls ==
    /\ phase = "Requesting"
    /\ phase' = "Denied"
    /\ rafCount' = rafCount + 1
    /\ animationIdRef' = rafCount + 1
    /\ rafQueue' = rafQueue \cup {rafCount + 1}
    /\ UNCHANGED <<tornDown, streamLive, audioContext, audioContextRef, analyzerRef,
                   dataArrayRef, heap, published, audioData, audioLevel, updateCalls>>
    /\ UNCHANGED <<renderVars, pureVars>>

\* getUserMedia rejects: the catch block logs, nothing else happens.
SetupRejected ==
    /\ phase = "Requesting"
    /\ phase' = "Denied"
    /\ UNCHANGED <<tornDown, streamLive, audioContext, audioContextRef, analyzerRef,
                   dataArrayRef, heap, published, audioData, audioLevel,
                   animationIdRef, rafQueue, rafCount, updateCalls>>
    /\ UNCHANGED <<renderVars, pureVars>>

\* getUserMedia resolves but the AudioContext constructor throws: the catch
\* block logs; the stream that was handed over is not touched again.
SetupUnavailable ==
    /\ phase = "Requesting"
    /\ phase' = "Denied"
    /\ streamLive' = TRUE
    /\ UNCHANGED <<tornDown, audioContext, audioContextRef, analyzerRef,
                   dataArrayRef, heap, published, audioData, audioLevel,
                   animationIdRef, rafQueue, rafCount, updateCalls>>
    /\ UNCHANGED <<renderVars, pureVars>>

\* The browser runs a pending animation-frame callback: updateAudioData.
AnimationFrame ==
    /\ updateCalls < MaxTicks
    /\ \E id \in rafQueue : \E sample \in Spectra :
         UpdateAudioData(analyzerRef, dataArrayRef, heap, sample, id)
    /\ UNCHANGED <<phase, tornDown, streamLive, audioContext, audioContextRef,
                   analyzerRef, dataArrayRef>>
    /\ UNCHANGED <<renderVars, pureVars>>

\* The effect cleanup.
Teardown ==
    /\ phase # "Uninitialized"
    /\ ~tornDown
    /\ tornDown' = TRUE
    /\ rafQueue' = IF animationIdRef # 0 THEN rafQueue \ {animationIdRef} ELSE rafQueue
    /\ audioContext' = IF audioContextRef THEN "closed" ELSE audioContext
    /\ UNCHANGED <<phase, streamLive, audioContextRef, analyzerRef, dataArrayRef,
                   heap, published, audioData, audioLevel, animationIdRef,
                   rafCount, updateCalls>>
    /\ UNCHANGED <<renderVars, pureVars>>

\* ------------------------------------------------- SingleCube, useFrame
\* 1.0 in fixed point: divisible by 255 (byte normalisation), by 1000
\* (the decimal literals) and by 10 once per explored frame (the smoother).
FixedOne == 51000 * Pow10(MaxFrames)

\* the decimal literal n / d
Decimal(n, d) == ScaleBy(FixedOne, n, d)

Cubes == 0..(cubeCount - 1)

\* rotationSpeed prop of cube index, in hundredths:
\* startRotationSpeed + index * rotationSpeedIncrement
RotationSpeed(index) == 10 + index * 1

\* basePeriod - audioLevel * (basePeriod - minPeriod), in LevelScale-ths of
\* a second for a level in LevelScale-ths.
OscillationPeriod(level) == basePeriod * LevelScale - level * (basePeriod - minPeriod)

\* Math.sin of an angle in thousandths of a turn, in thousandths.
HalfSine(h) == LET p == h * (500 - h) IN (16000 * p) \div (1250000 - 4 * p)
Sin1000(m) == LET t == m % 1000 IN IF t < 500 THEN HalfSine(t) ELSE 0 - HalfSine(t - 500)

\* frequencyData && frequencyData.length > 0
HasFrequencyData(fd) == Len(fd) > 0

\* Variant: Math.ceil in place of Math.floor.
FreqIndexCeil(index, len) == (index * len + indexDivisor - 1) \div indexDivisor

\* Math.floor((index / 20) * frequencyData.length); for lengths below 90
\* the double product floors to the same integer as the exact quotient.
FreqIndex(index, len) == (index * len) \div indexDivisor

\* Variant: smoothingFactor = 1.5.
LerpOvershoot(cur, target) == cur + ScaleBy(target - cur, 15, 10)

\* x += (target - x) * smoothingFactor, smoothingFactor = 0.1
Lerp(cur, target) == cur + ScaleBy(target - cur, 1, 10)

\* 1 + frequency * 0.6, for the byte read from the bin
TargetScale(byte) == FixedOne + ScaleBy(Decimal(6, 10), byte, byteMax)

\* baseRadius + frequency * (maxRadius - baseRadius)
TargetRadius(byte) ==
    LET baseRadius == Decimal(15, 1000)
        maxRadius == Decimal(6, 100)
    IN  baseRadius + ScaleBy(maxRadius - baseRadius, byte, byteMax)

\* The rotation part of the callback: the three angles after
\* rotation.{x,y,z} += delta * effectiveSpeed.
Rotate(c, index, level, time, delta) ==
    LET oscillationPeriod == OscillationPeriod(level)
        phaseTurns == (index * 1000) \div indexDivisor
        turns == (1000 * time * LevelScale) \div oscillationPeriod + phaseTurns
        speedModulation == Sin1000(turns)
        baseSpeed == RotationSpeed(index) * speedModulation * LevelScale
        audioBoostSpeed == level * RotationSpeed(index) * 2 * 1000
        effectiveSpeed == baseSpeed + audioBoostSpeed
    IN  [a \in 1..3 |-> c.rotation[a] + delta * effectiveSpeed]

\* The body of the if: read the cube's bin, smooth toward the targets,
\* apply them to the group scale and the tube radius.
React(c, freqIndex, byte) ==
    LET smoothedScale == Lerp(c.smoothedScale, TargetScale(byte))
        smoothedRadius == Lerp(c.smoothedRadius, TargetRadius(byte))
    IN  [c EXCEPT !.smoothedScale = smoothedScale, !.smoothedRadius = smoothedRadius,
                  !.scale = smoothedScale, !.tubeRadius = smoothedRadius,
                  !.read = freqIndex]

\* Variant: an empty frame is taken for silence and smoothed toward.
SingleCubeFrameSilence(c, index, level, fd, time, delta) ==
    LET turned == [c EXCEPT !.rotation = Rotate(c, index, level, time, delta)]
    IN  IF HasFrequencyData(fd)
        THEN React(turned, FreqIndex(index, Len(fd)), fd[FreqIndex(index, Len(fd)) + 1])
        ELSE React(turned, 0 - 1, 0)

\* One run of the useFrame callback of cube index, on its state c, with the
\* props and the clock as given; the cube's state after it.
SingleCubeFrame(c, index, level, fd, time, delta) ==
    LET turned == [c EXCEPT !.rotation = Rotate(c, index, level, time, delta)]
    IN  IF HasFrequencyData(fd)
        THEN React(turned, FreqIndex(index, Len(fd)), fd[FreqIndex(index, Len(fd)) + 1])
        ELSE [turned EXCEPT !.read = 0 - 1]

\* A cube as mounted: useRef(1), useRef(0.02), useState(0.02), a fresh group.
NewCube ==
    [smoothedScale |-> FixedOne, smoothedRadius |-> Decimal(2, 100),
     scale |-> FixedOne, tubeRadius |-> Decimal(2, 100),
     rotation |-> <<0, 0, 0>>, read |-> 0 - 1]

\* One frame of the render loop: the clock advances and every cube's
\* useFrame callback runs with the props of the latest render.
RenderFrame ==
    /\ ~tornDown
    /\ frames < MaxFrames
    /\ \E delta \in Deltas :
         /\ elapsedTime' = elapsedTime + delta
         /\ cubes' = [i \in Cubes |->
                        SingleCubeFrame(cubes[i], i, audioLevel, heap[audioData],
                                        elapsedTime + delta, delta)]
    /\ frames' = frames + 1
    /\ UNCHANGED <<audioVars, pureVars>>

\* ----------------------------------------- the period, on any level
\* Levels from -ProbeSpan to 1 + ProbeSpan, in LevelScale-ths.
ProbeLevels == (0 - ProbeSpan * LevelScale)..((1 + ProbeSpan) * LevelScale)

OscillatorInit ==
    oscillator \in [level : ProbeLevels, period : {0}, evaluated : {FALSE}]

\* Lines 149-152 of the callback, run on the audioLevel prop as given.
EvaluatePeriod ==
    /\ ~oscillator.evaluated
    /\ oscillator' = [oscillator EXCEPT !.period = OscillationPeriod(oscillator.level),
                                        !.evaluated = TRUE]
    /\ UNCHANGED <<mainVars, pixels, kaleidoscope, binProbe>>

\* ------------------------------------------- kaleidoscopeFragmentShader
\* A coordinate relative to the centre is carried in polar form: radius and
\* the angle atan(coord.y, coord.x) in whole degrees, in (-180, 180].  The
\* aspect uniform is 1 here, so the two aspect corrections scale by 1.
SegmentChoices == {2, 3, 4, 6, 8, 12, 24}
Angles == {15 * j - 165 : j \in 0..23}
Coords == [radius : 0..MaxRadius, angle : Angles]

\* 2.0 * 3.14159265359 / segments
SegmentAngle(segs) == TwoPi \div segs

\* GLSL mod(x, y) = x - y * floor(x / y)
GlslMod(x, y) == x % y

\* Variant: wrap into one wedge without mirroring.
WrapAnglePinwheel(angle, segs) == GlslMod(angle, SegmentAngle(segs))

\* Lines 96-101: wrap into a double wedge, mirror its second half.
WrapAngle(angle, segs) ==
    LET segmentAngle == SegmentAngle(segs)
        wrappedAngle == GlslMod(angle, segmentAngle * 2)
    IN  IF wrappedAngle > segmentAngle
        THEN segmentAngle * 2 - wrappedAngle
        ELSE wrappedAngle

\* vec2(cos(a), sin(a)) * radius: the point, whose angle counts modulo a
\* turn and not at all at the centre.
Polar(radius, a) ==
    IF radius = 0 THEN [radius |-> 0, angle |-> 0]
    ELSE [radius |-> radius, angle |-> a % TwoPi]

\* mainUv on one coordinate: the angle it was wrapped to, the new coordinate.
MainUv(uv, segs) ==
    LET wrappedAngle == WrapAngle(uv.angle, segs)
    IN  [wrapped |-> wrappedAngle, coord |-> Polar(uv.radius, wrappedAngle)]

\* Two pixels not shaded yet: their outputs hold the centre.
Unshaded == [wrapped |-> 0, coord |-> Polar(0, 0)]

PixelsInit ==
    \E segs \in SegmentChoices : \E a \in Coords : \E b \in Coords :
        pixels = [segments |-> segs, uv |-> <<a, b>>,
                  out |-> <<Unshaded, Unshaded>>, shaded |-> {}]

\* The compositor runs the shader on one of the two pixels.
ShadePixel ==
    /\ \E k \in {1, 2} \ pixels.shaded :
         pixels' = [pixels EXCEPT !.out[k] = MainUv(pixels.uv[k], pixels.segments),
                                  !.shaded = @ \cup {k}]
    /\ UNCHANGED <<mainVars, oscillator, kaleidoscope, binProbe>>

\* ------------------------------------------- KaleidoscopeEffect.update
\* A double: a positive or zero ratio in lowest terms, Infinity or NaN.
Ratio(n, d) ==
    IF d = 0
    THEN [kind |-> IF n = 0 THEN "NaN" ELSE "Infinity", num |-> 0, den |-> 0]
    ELSE [kind |-> "finite", num |-> n \div Gcd(n, d), den |-> d \div Gcd(n, d)]

\* Canvas heights, 0 included, and canvas widths, which are kept positive.
Dims == 0..MaxDim
Widths == 1..MaxDim

\* constructor({ segments = 6, aspect = 1 }): the uniform starts at 1
KaleidoscopeInit ==
    \E w \in Widths : \E h \in Dims :
        kaleidoscope = [width |-> w, height |-> h, aspect |-> Ratio(1, 1), fresh |-> FALSE]

\* The canvas is resized.
Resize ==
    /\ \E w \in Widths : \E h \in Dims :
         /\ <<w, h>> # <<kaleidoscope.width, kaleidoscope.height>>
         /\ kaleidoscope' = [kaleidoscope EXCEPT !.width = w, !.height = h, !.fresh = FALSE]
    /\ UNCHANGED <<mainVars, oscillator, pixels, binProbe>>

\* update(renderer, inputBuffer, deltaTime)
EffectUpdate ==
    /\ kaleidoscope' = [kaleidoscope EXCEPT
                          !.aspect = Ratio(kaleidoscope.width, kaleidoscope.height),
                          !.fresh = TRUE]
    /\ UNCHANGED <<mainVars, oscillator, pixels, binProbe>>

\* ------------------------------------------------ the bin of a cube
BinProbeInit ==
    binProbe \in [index : Cubes, len : 1..MaxLen, bin : {0}, done : {FALSE}]

\* Line 169, for a cube and a frame length.
LookupBin ==
    /\ ~binProbe.done
    /\ binProbe' = [binProbe EXCEPT !.bin = FreqIndex(binProbe.index, binProbe.len),
                                    !.done = TRUE]
    /\ UNCHANGED <<mainVars, oscillator, pixels, kaleidoscope>>

\* ------------------------------------------------------- specification
AudioInit ==
    /\ phase = "Uninitialized"
    /\ tornDown = FALSE
    /\ streamLive = FALSE
    /\ audioContext = "none"
    /\ audioContextRef = FALSE
    /\ analyzerRef = FALSE
    /\ dataArrayRef = 0
    /\ heap = << <<>> >>
    /\ published = {1}
    /\ audioData = 1
    /\ audioLevel = 0
    /\ animationIdRef = 0
    /\ rafQueue = {}
    /\ rafCount = 0
    /\ updateCalls = 0

RenderInit ==
    /\ cubes = [i \in Cubes |-> NewCube]
    /\ elapsedTime = 0
    /\ frames = 0

MainInit == AudioInit /\ RenderInit

OscillatorIdle == oscillator = [level |-> 0, period |-> 0, evaluated |-> FALSE]
PixelsIdle == pixels = [segments |-> 12, uv |-> <<>>, out |-> <<>>, shaded |-> {}]
KaleidoscopeIdle ==
    kaleidoscope = [width |-> 1, height |-> 1, aspect |-> Ratio(1, 1), fresh |-> FALSE]
BinProbeIdle == binProbe = [index |-> 0, len |-> 0, bin |-> 0, done |-> FALSE]

Init == MainInit /\ OscillatorIdle /\ PixelsIdle /\ KaleidoscopeIdle /\ BinProbeIdle

Next ==
    \/ RunEffect
    \/ SetupGranted
    \/ SetupRejected
    \/ SetupUnavailable
    \/ AnimationFrame
    \/ Teardown
    \/ RenderFrame

Spec == Init /\ [][Next]_vars

\* The period evaluated on levels in and out of [0, 1].
PeriodInit == MainInit /\ OscillatorInit /\ PixelsIdle /\ KaleidoscopeIdle /\ BinProbeIdle
PeriodNext == EvaluatePeriod
SpecPeriod == PeriodInit /\ [][PeriodNext]_vars

\* The shader on pairs of coordinates, aspect 1.
FoldInit == MainInit /\ OscillatorIdle /\ PixelsInit /\ KaleidoscopeIdle /\ BinProbeIdle
FoldNext == ShadePixel
SpecFold == FoldInit /\ [][FoldNext]_vars

\* The aspect uniform under resizes of the canvas.
AspectInit == MainInit /\ OscillatorIdle /\ PixelsIdle /\ KaleidoscopeInit /\ BinProbeIdle
AspectNext == Resize \/ EffectUpdate
SpecAspect == AspectInit /\ [][AspectNext]_vars

\* The bin lookup on every cube and frame length.
IndexInit == MainInit /\ OscillatorIdle /\ PixelsIdle /\ KaleidoscopeIdle /\ BinProbeInit
IndexNext == LookupBin
SpecIndex == IndexInit /\ [][IndexNext]_vars

\* ------------------------------------------------------------- claims
\* C1: once the effect cleanup has run, updateAudioData never runs again
\* and the audioData and audioLevel states never change again, whatever
\* the order of the cleanup and the resolution of getUserMedia.
C1_QuietAfterTeardown ==
    [][tornDown => /\ updateCalls' = updateCalls
                   /\ audioData' = audioData
                   /\ audioLevel' = audioLevel]_vars

NotActive == phase \in {"Uninitialized", "Requesting", "Denied"}

\* C2: while setup has not resolved successfully the published spectrum is
\* the empty array and the published level is 0; after a rejection or a
\* failure that stays so for good, no animation-frame callback is pending
\* or was ever requested, and the render loop can still run its frames.
C2_DefaultUntilActive ==
    /\ [](NotActive => heap[audioData] = <<>> /\ audioLevel = 0)
    /\ [](phase = "Denied" =>
            /\ rafQueue = {} /\ animationIdRef = 0 /\ rafCount = 0
            /\ (~tornDown /\ frames < MaxFrames) => ENABLED RenderFrame)
    /\ [][phase = "Denied" => phase' = "Denied"]_vars

C2_Witness ==
    /\ phase = "Denied"
    /\ frames > 0
    /\ heap[audioData] = <<>>

\* C3: once the cleanup has run and setup is no longer pending, no audio
\* context made by setup is still running and the stream it acquired is
\* not live.
C3_TeardownReleases ==
    (tornDown /\ phase # "Requesting") =>
        (audioContext # "running" /\ ~streamLive)

\* C4: a frame handed to setAudioData is never written again: the working
\* buffer is never itself published, the contents of every published array
\* stay as they were in every step, and each publication is a fresh array.
C4_PublishedFramesImmutable ==
    /\ [](dataArrayRef \notin published)
    /\ [][\A id \in published : heap'[id] = heap[id]]_vars
    /\ [][audioData' # audioData => audioData' \notin published]_vars

C4_Witness ==
    /\ dataArrayRef # 0
    /\ \E id \in published :
         /\ id # audioData
         /\ Len(heap[id]) > 0
         /\ heap[id] # heap[dataArrayRef]

\* C5: a render frame run while the published frame is empty leaves every
\* cube's smoothed scale, smoothed radius, group scale and tube radius as
\* they were and reads no bin; only the clock and the rotations move.
C5_EmptyFrameHolds ==
    [][(frames' # frames /\ ~HasFrequencyData(heap[audioData])) =>
         /\ \A i \in Cubes :
              /\ cubes'[i].smoothedScale = cubes[i].smoothedScale
              /\ cubes'[i].smoothedRadius = cubes[i].smoothedRadius
              /\ cubes'[i].scale = cubes[i].scale
              /\ cubes'[i].tubeRadius = cubes[i].tubeRadius
              /\ cubes'[i].read = 0 - 1
         /\ UNCHANGED audioVars]_vars

C5_Witness ==
    /\ frames > 0
    /\ ~HasFrequencyData(heap[audioData])
    /\ \E i \in Cubes : cubes[i].rotation[1] # 0
    /\ \A i \in Cubes : cubes[i].smoothedRadius = Decimal(2, 100)

Between(from, x, to) == (from <= x /\ x <= to) \/ (to <= x /\ x <= from)

\* C6: each smoother update on magnitudes 0..255 puts the smoothed scale
\* (radius) between its previous value and the frame's target, ends
\* included; the smoothed scale stays in [1, 1.6] and the smoothed radius
\* in [0.015, 0.06].
C6_SmootherBounded ==
    /\ [](\A i \in Cubes :
            /\ FixedOne <= cubes[i].smoothedScale
            /\ cubes[i].smoothedScale <= Decimal(16, 10)
            /\ Decimal(15, 1000) <= cubes[i].smoothedRadius
            /\ cubes[i].smoothedRadius <= Decimal(6, 100))
    /\ [][(frames' # frames /\ HasFrequencyData(heap[audioData])) =>
            \A i \in Cubes :
              LET fd == heap[audioData]
                  byte == fd[FreqIndex(i, Len(fd)) + 1]
              IN  /\ Between(cubes[i].smoothedScale, cubes'[i].smoothedScale,
                             TargetScale(byte))
                  /\ Between(cubes[i].smoothedRadius, cubes'[i].smoothedRadius,
                             TargetRadius(byte))]_vars

C6_Witness ==
    /\ frames > 1
    /\ \E i \in Cubes :
         /\ cubes[i].smoothedScale > FixedOne
         /\ cubes[i].smoothedScale < Decimal(16, 10)
         /\ cubes[i].smoothedRadius > Decimal(2, 100)

IsMirrorPair(a, b, segs) ==
    \E k \in 0..(segs - 1) : (a + b - 2 * k * SegmentAngle(segs)) % TwoPi = 0

Mirrored ==
    /\ pixels.shaded = {1, 2}
    /\ pixels.uv[1].radius = pixels.uv[2].radius
    /\ IsMirrorPair(pixels.uv[1].angle, pixels.uv[2].angle, pixels.segments)

InWedge ==
    \A k \in pixels.shaded :
        /\ 0 <= pixels.out[k].wrapped
        /\ pixels.out[k].wrapped <= SegmentAngle(pixels.segments)

\* C8, as stated: for aspect 1 and every segment count >= 2, coordinates of
\* equal radius whose angles mirror each other about a wedge boundary fold
\* to the same coordinate, and every folded angle lies in [0, 2 pi / N].
C8_MirrorInvariantAnyN ==
    /\ InWedge
    /\ Mirrored => pixels.out[1].coord = pixels.out[2].coord

\* C8, amended: the same for every even segment count (12 as configured);
\* the folded angle lies in [0, 2 pi / N] for every segment count.
C8_MirrorInvariantEvenN ==
    /\ InWedge
    /\ (Mirrored /\ pixels.segments % 2 = 0) =>
           pixels.out[1].coord = pixels.out[2].coord

C8_Witness ==
    /\ Mirrored
    /\ pixels.segments = 12
    /\ pixels.uv[1].radius > 0
    /\ pixels.uv[1].angle = 165
    /\ pixels.uv[2].angle = 0 - 105
    /\ pixels.out[1].coord = pixels.out[2].coord

\* C9: the aspect uniform is always a finite positive number, and an
\* update run on a canvas of height 0 sets it to 1.
C9_AspectFinitePositive ==
    /\ kaleidoscope.aspect.kind = "finite"
    /\ kaleidoscope.aspect.num > 0
    /\ (kaleidoscope.fresh /\ kaleidoscope.height = 0) =>
           kaleidoscope.aspect = Ratio(1, 1)

\* C10: for every cube index below cubeCount and every frame length L >= 1
\* the bin read lies in 0..L-1, and no cube of a lower index reads a
\* higher bin.
C10_BinInRange ==
    binProbe.done =>
        /\ 0 <= binProbe.bin
        /\ binProbe.bin <= binProbe.len - 1
        /\ \A j \in Cubes :
             j <= binProbe.index => FreqIndex(j, binProbe.len) <= binProbe.bin

C10_Witness ==
    /\ binProbe.done
    /\ binProbe.len = 64
    /\ binProbe.index = 19
    /\ binProbe.bin = 60

====
